---- MODULE Spec2Model ----
(***************************************************************************)
(* A model of the chess board of ChessBevyRefactor: the Board resource     *)
(* (board.rs), its FEN parser, its piece placement and move application,   *)
(* and its pseudo-legal move generators, with the Piece encoding of        *)
(* piece.rs.                                                               *)
(*                                                                         *)
(* Conventions.  An Option<T> is a sequence: <<>> is None and <<x>> is     *)
(* Some(x).  A string is a sequence of characters, each character a        *)
(* one-character TLA+ string.  As in the source, the `file` component of   *)
(* a TilePos is the row counted from White's side and `rank` the column.   *)
(***************************************************************************)
EXTENDS Integers, Sequences, FiniteSets, TLC

VARIABLES
    fen,              \* the description string handed to from_fen
    parser,           \* from_fen's locals: iterator position, section, cursors, outcome
    board,            \* the Board under construction / the Board resource
    ops,              \* number of set_piece / move_piece calls made so far
    result            \* the last call made on the Board and what it returned

vars == <<fen, parser, board, ops, result>>

---------------------------------------------------------------------------
(* Program constants *)

BOARD_SIZE == 8
COLOUR_AMT == 2

(* Bounds of the model *)

MaxOps == 2

---------------------------------------------------------------------------
(* Player, TilePos *)

Players == <<"White", "Black">>

TilePos(file, rank) == [file |-> file, rank |-> rank]

OnBoard(file, rank) ==
    file >= 0 /\ file < BOARD_SIZE /\ rank >= 0 /\ rank < BOARD_SIZE

Tiles == {TilePos(f, r) : f \in 0..(BOARD_SIZE - 1), r \in 0..(BOARD_SIZE - 1)}

---------------------------------------------------------------------------
(* Piece: the enum, its discriminants and the colour bit *)

PieceCode(piece) ==
    CASE piece = "None"    -> 0
      [] piece = "WQueen"  -> 1
      [] piece = "WKing"   -> 2
      [] piece = "WRook"   -> 3
      [] piece = "WKnight" -> 4
      [] piece = "WBishop" -> 5
      [] piece = "WPawn"   -> 6
      [] piece = "BQueen"  -> 9
      [] piece = "BKing"   -> 10
      [] piece = "BRook"   -> 11
      [] piece = "BKnight" -> 12
      [] piece = "BBishop" -> 13
      [] piece = "BPawn"   -> 14

is_white(piece) == ((PieceCode(piece) \div 8) % 2) = 0 /\ piece # "None"

is_black(piece) == ((PieceCode(piece) \div 8) % 2) = 1

\* impl From<Piece> for usize: negative when the subtraction underflows
PieceToUsize(piece) ==
    PieceCode(piece) - 1 - 2 * (IF is_black(piece) THEN 1 ELSE 0)

from_algebraic(chr) ==
    CASE chr = "-" -> <<"None">>
      [] chr = "P" -> <<"WPawn">>
      [] chr = "N" -> <<"WKnight">>
      [] chr = "B" -> <<"WBishop">>
      [] chr = "R" -> <<"WRook">>
      [] chr = "Q" -> <<"WQueen">>
      [] chr = "K" -> <<"WKing">>
      [] chr = "p" -> <<"BPawn">>
      [] chr = "n" -> <<"BKnight">>
      [] chr = "b" -> <<"BBishop">>
      [] chr = "r" -> <<"BRook">>
      [] chr = "q" -> <<"BQueen">>
      [] chr = "k" -> <<"BKing">>
      [] OTHER     -> <<>>

\* The scan order of the 12 non-empty pieces (piece.rs is given without it;
\* the order follows From<usize> for Piece).
PIECES ==
    <<"WQueen", "WKing", "WRook", "WKnight", "WBishop", "WPawn",
      "BQueen", "BKing", "BRook", "BKnight", "BBishop", "BPawn">>

PieceSet == {PIECES[i] : i \in 1..Len(PIECES)}

AllPieces == PieceSet \cup {"None"}

\* Piece::to_player: the owner of a piece, None for the empty piece
to_player(piece) ==
    IF is_white(piece) THEN <<"White">>
    ELSE IF is_black(piece) THEN <<"Black">>
    ELSE <<>>

---------------------------------------------------------------------------
(* BitBoards: one occupancy set per non-empty piece *)

BitBoardsDefault == [piece \in PieceSet |-> {}]

get_bit_at(bitboard, tile_pos) == tile_pos \in bitboard

set_bit_at(bitboard, tile_pos, value) ==
    IF value THEN bitboard \cup {tile_pos} ELSE bitboard \ {tile_pos}

---------------------------------------------------------------------------
(* Board: piece and entity accessors *)

MinOf(S) == CHOOSE x \in S : \A y \in S : x <= y

get_piece(self, tile_pos) ==
    LET hits == {i \in 1..Len(PIECES) :
                    get_bit_at(self.positions[PIECES[i]], tile_pos)}
    IN  IF hits = {} THEN "None" ELSE PIECES[MinOf(hits)]

\* a set_piece that forgets to clear the other occupancy sets
set_piece_keep_others(self, tile_pos, piece) ==
    [self EXCEPT !.positions =
        [piece_i \in PieceSet |->
            IF piece_i = piece
            THEN set_bit_at(self.positions[piece_i], tile_pos, TRUE)
            ELSE self.positions[piece_i]]]

set_piece(self, tile_pos, piece) ==
    [self EXCEPT !.positions =
        [piece_i \in PieceSet |->
            IF piece_i = piece
            THEN set_bit_at(self.positions[piece_i], tile_pos, TRUE)
            ELSE set_bit_at(self.positions[piece_i], tile_pos, FALSE)]]

\* entities[file][rank], kept as the set of the squares that hold Some(entity)
get_entity(self, tile_pos) ==
    LET held == {e \in self.entities : e.tile = tile_pos}
    IN  IF held = {} THEN <<>> ELSE <<(CHOOSE e \in held : TRUE).entity>>

set_entity(self, tile_pos, entity) ==
    [self EXCEPT !.entities =
        {e \in @ : e.tile # tile_pos}
        \cup (IF entity = <<>> THEN {}
              ELSE {[tile |-> tile_pos, entity |-> entity[1]]})]

\* a move_piece that also hands the turn to the other player
move_piece_turn(self, from, to) ==
    LET moved_piece  == get_piece(self, from)
        cleared      == set_piece(self, from, "None")
        placed       == set_piece(cleared, to, moved_piece)
        moved_entity == get_entity(placed, from)
        e_cleared    == set_entity(placed, from, <<>>)
        moved        == set_entity(e_cleared, to, moved_entity)
    IN  [moved EXCEPT !.player = IF self.player = "White" THEN "Black" ELSE "White"]

\* a move_piece that writes the destination but leaves the source in place
move_piece_copy(self, from, to) ==
    set_piece(self, to, get_piece(self, from))

move_piece(self, from, to) ==
    LET moved_piece  == get_piece(self, from)
        cleared      == set_piece(self, from, "None")
        placed       == set_piece(cleared, to, moved_piece)
        moved_entity == get_entity(placed, from)
        e_cleared    == set_entity(placed, from, <<>>)
    IN  set_entity(e_cleared, to, moved_entity)

get_player(self) == self.player

get_next_player(self) ==
    IF self.player = "White" THEN "Black" ELSE "White"

next_player(self) == [self EXCEPT !.player = get_next_player(self)]

---------------------------------------------------------------------------
(* from_fen *)

\* the Board literal from_fen starts from
NewBoard ==
    [positions               |-> BitBoardsDefault,
     player                  |-> "White",
     castling_rights         |-> [p \in 1..COLOUR_AMT |-> <<FALSE, FALSE>>],
     en_passant_on_last_move |-> <<>>,
     half_move_counter       |-> 0,
     full_move_counter       |-> 1,
     entities                |-> {},
     move_history            |-> <<>>]

\* from_fen's locals before the first character
NewParser ==
    [pos           |-> 1,
     chr_index     |-> 0,
     section_index |-> 0,
     rank          |-> 0,
     file          |-> 0,
     status        |-> "running",
     error         |-> <<>>]

\* a character that UTF-8 encodes in two bytes
MultiByte == "U+00E9"

\* bytes char_indices advances by over a character
Width(chr) == IF chr = MultiByte THEN 2 ELSE 1

DigitChars == <<"0", "1", "2", "3", "4", "5", "6", "7", "8", "9">>

IsDigit(chr, lo, hi) == \E d \in lo..hi : DigitChars[d + 1] = chr

\* chr as u8 - b'0'
DigitValue(chr) == CHOOSE d \in 0..9 : DigitChars[d + 1] = chr

FileChars == <<"a", "b", "c", "d", "e", "f", "g", "h">>

IsFileChar(chr) == \E i \in 1..Len(FileChars) : FileChars[i] = chr

\* chr as u8 - b'a'
FileValue(chr) == (CHOOSE i \in 1..Len(FileChars) : FileChars[i] = chr) - 1

PlayerIndex(player) == IF player = "White" THEN 1 ELSE 2

Stop(st, status, token) ==
    [st EXCEPT !.parser.status = status, !.parser.error = token]

\* a placement that forgets to count the rows down from the top of the board
FenPlace_unflipped(st, chr, checks) ==
    LET p     == st.parser
        piece == from_algebraic(chr)
    IN  IF piece = <<>>
        THEN Stop(st, "err", <<chr>>)
        ELSE IF ~OnBoard(p.file, p.rank)
        THEN Stop(st, "offboard", <<>>)
        ELSE IF PieceToUsize(piece[1]) < 0
        THEN Stop(st, "abort", <<>>)
        ELSE [board  |-> set_piece(st.board, TilePos(p.file, p.rank), piece[1]),
              parser |-> [p EXCEPT !.rank = @ + 1]]

\* Section 0, a piece letter: place the piece at (BOARD_SIZE - 1 - file, rank)
FenPlace(st, chr, checks) ==
    LET p     == st.parser
        piece == from_algebraic(chr)
    IN  IF piece = <<>>
        THEN Stop(st, "err", <<chr>>)
        ELSE IF BOARD_SIZE - 1 - p.file < 0
        THEN \* usize subtraction underflows: a panic, or a wrapped file index
             Stop(st, IF checks THEN "abort" ELSE "offboard", <<>>)
        ELSE IF ~OnBoard(BOARD_SIZE - 1 - p.file, p.rank)
        THEN \* a TilePos outside the board is handed to the occupancy sets
             Stop(st, "offboard", <<>>)
        ELSE IF PieceToUsize(piece[1]) < 0
        THEN \* positions[Piece::None]: there is no occupancy set to index
             Stop(st, "abort", <<>>)
        ELSE LET tile_pos == TilePos(BOARD_SIZE - 1 - p.file, p.rank)
                 placed   == set_piece(st.board, tile_pos, piece[1])
             IN  [board  |-> [placed EXCEPT !.positions[piece[1]] =
                                 set_bit_at(@, tile_pos, TRUE)],
                  parser |-> [p EXCEPT !.rank = @ + 1]]

\* Section 3, neither '-' nor ' ': the two characters read for the target
FenEnPassant(st, fen_string) ==
    LET p   == st.parser
        lo  == p.chr_index          \* skip(chr_index - 1): the chr_index-th character
        hi  == IF lo + 1 <= Len(fen_string) THEN lo + 1 ELSE Len(fen_string)
        algebraic_en_passant ==
            IF lo >= 1 /\ lo <= Len(fen_string) THEN SubSeq(fen_string, lo, hi) ELSE <<>>
    IN  IF lo < 1 \/ Len(algebraic_en_passant) < 2
        THEN Stop(st, "abort", <<>>)
        ELSE IF IsFileChar(algebraic_en_passant[1])
                /\ IsDigit(algebraic_en_passant[2], 0, 8)
        THEN [st EXCEPT !.board.en_passant_on_last_move =
                <<TilePos(FileValue(algebraic_en_passant[1]),
                          DigitValue(algebraic_en_passant[2]))>>]
        ELSE Stop(st, "err", algebraic_en_passant)

\* One iteration of the loop over fen.char_indices(), without the iterator's advance
FenBody(st, chr, fen_string, checks) ==
    LET p == st.parser
        b == st.board
    IN  CASE p.section_index = 0 ->
               (CASE chr = "/" -> [st EXCEPT !.parser.file = @ + 1, !.parser.rank = 0]
                  [] IsDigit(chr, 1, 8) -> [st EXCEPT !.parser.rank = @ + DigitValue(chr)]
                  [] chr = " " -> [st EXCEPT !.parser.section_index = @ + 1]
                  [] OTHER -> FenPlace(st, chr, checks))
          [] p.section_index = 1 ->
               (CASE chr = "w" -> [st EXCEPT !.board.player = "White"]
                  [] chr = "b" -> [st EXCEPT !.board.player = "Black"]
                  [] chr = " " -> [st EXCEPT !.parser.section_index = @ + 1]
                  [] OTHER -> Stop(st, "err", <<chr>>))
          [] p.section_index = 2 ->
               (CASE chr = "K" -> [st EXCEPT !.board.castling_rights[PlayerIndex("White")][1] = TRUE]
                  [] chr = "Q" -> [st EXCEPT !.board.castling_rights[PlayerIndex("White")][2] = TRUE]
                  [] chr = "k" -> [st EXCEPT !.board.castling_rights[PlayerIndex("Black")][1] = TRUE]
                  [] chr = "q" -> [st EXCEPT !.board.castling_rights[PlayerIndex("Black")][2] = TRUE]
                  [] chr = "-" -> [st EXCEPT !.board.castling_rights =
                                      [i \in 1..COLOUR_AMT |-> <<FALSE, FALSE>>]]
                  [] chr = " " -> [st EXCEPT !.parser.section_index = @ + 1]
                  [] OTHER -> Stop(st, "err", <<chr>>))
          [] p.section_index = 3 ->
               (CASE chr = "-" -> [st EXCEPT !.board.en_passant_on_last_move = <<>>]
                  [] chr = " " -> [st EXCEPT !.parser.section_index = @ + 1]
                  [] OTHER -> FenEnPassant(st, fen_string))
          [] OTHER -> Stop(st, "ok", <<>>)   \* break, then Ok(board)

\* One iteration: the body, then the iterator moves on
FenStep(st, fen_string, checks) ==
    LET chr  == fen_string[st.parser.pos]
        next == FenBody(st, chr, fen_string, checks)
    IN  [next EXCEPT !.parser.pos = st.parser.pos + 1,
                     !.parser.chr_index = st.parser.chr_index + Width(chr)]

RECURSIVE FenLoop(_, _, _)
FenLoop(st, fen_string, checks) ==
    IF st.parser.status # "running" THEN st
    ELSE IF st.parser.pos > Len(fen_string) THEN Stop(st, "ok", <<>>)
    ELSE FenLoop(FenStep(st, fen_string, checks), fen_string, checks)

from_fen(fen_string, checks) ==
    FenLoop([board |-> NewBoard, parser |-> NewParser], fen_string, checks)

---------------------------------------------------------------------------
(* Description strings the model draws its inputs from *)

\* Board::default's description string
DEFAULT_FEN ==
    <<"r", "n", "b", "q", "k", "b", "n", "r", "/", "p", "p", "p", "p", "p",
      "p", "p", "p", "/", "8", "/", "8", "/", "8", "/", "8", "/", "P", "P",
      "P", "P", "P", "P", "P", "P", "/", "R", "N", "B", "Q", "K", "B", "N",
      "R", " ", "w", " ", "K", "Q", "k", "q", " ", "-", " ", "0", " ", "1">>

\* the placement section of DEFAULT_FEN
StartPlacement ==
    <<"r", "n", "b", "q", "k", "b", "n", "r", "/", "p", "p", "p", "p", "p",
      "p", "p", "p", "/", "8", "/", "8", "/", "8", "/", "8", "/", "P", "P",
      "P", "P", "P", "P", "P", "P", "/", "R", "N", "B", "Q", "K", "B", "N",
      "R">>

\* a lone white knight on (3,3)
KnightCentre ==
    <<"8", "/", "8", "/", "8", "/", "8", "/", "3", "N", "4", "/", "8", "/",
      "8", "/", "8">>

\* a lone white knight on (0,0)
KnightCorner ==
    <<"8", "/", "8", "/", "8", "/", "8", "/", "8", "/", "8", "/", "8", "/",
      "N", "7">>

\* a lone black king on (4,3)
KingCentre ==
    <<"8", "/", "8", "/", "8", "/", "3", "k", "4", "/", "8", "/", "8", "/",
      "8", "/", "8">>

\* a lone white queen on (3,3)
QueenCentre ==
    <<"8", "/", "8", "/", "8", "/", "8", "/", "3", "Q", "4", "/", "8", "/",
      "8", "/", "8">>

\* a middle-game position
Midgame ==
    <<"r", "3", "k", "2", "r", "/", "p", "p", "1", "n", "1", "p", "p", "p",
      "/", "2", "p", "1", "p", "n", "2", "/", "q", "2", "p", "4", "/", "1",
      "b", "P", "P", "1", "B", "2", "/", "2", "N", "1", "P", "N", "2", "/",
      "P", "P", "Q", "2", "P", "P", "P", "/", "R", "3", "K", "B", "1", "R">>

\* pawns of both colours on every file index, blocked and free
PawnMix ==
    <<"P", "6", "p", "/", "p", "1", "P", "p", "1", "p", "p", "P", "/", "1",
      "P", "1", "p", "P", "1", "n", "1", "/", "p", "P", "p", "P", "1", "p",
      "1", "P", "/", "P", "1", "p", "P", "p", "1", "P", "p", "/", "p", "3",
      "P", "p", "2", "/", "P", "p", "P", "1", "p", "P", "1", "P", "/", "p",
      "6", "P">>

\* pieces of both colours on edges, corners and next to each other
Crowd ==
    <<"Q", "r", "Q", "2", "n", "1", "K", "/", "r", "R", "b", "1", "N", "3",
      "/", "Q", "b", "q", "1", "k", "3", "/", "8", "/", "3", "P", "p", "3",
      "/", "2", "n", "Q", "K", "q", "2", "/", "3", "p", "P", "2", "N", "/",
      "k", "4", "n", "1", "Q">>

\* a piece in a ninth row
NineRows ==
    <<"/", "/", "/", "/", "/", "/", "/", "/", "P">>

\* a ninth square in a row
NineSquares ==
    <<"8", "/", "8", "/", "8", "/", "8", "/", "8", "/", "8", "/", "8", "/",
      "7", "P", "P">>

\* a letter that is no piece
BadPiece ==
    <<"r", "n", "b", "x", "k", "b", "n", "r", "/", "8">>

ClockFields == <<" ", "0", " ", "1">>

Space == <<" ">>

Placements ==
    {StartPlacement, KnightCentre, Midgame, NineRows, NineSquares, BadPiece,
     <<"8", "8">>, <<>>}

PlayerTokens == {<<"w">>, <<"b">>, <<"x">>, <<MultiByte>>}

CastlingTokens == {<<"K", "Q", "k", "q">>, <<"-">>, <<"K", "q">>, <<"K", "-", "q">>, <<"z">>}

EnPassantTokens ==
    {<<"-">>, <<"e", "3">>, <<"a", "0">>, <<"h", "8">>, <<"c", "6">>,
     <<"e", "9">>, <<"i", "3">>, <<"z", "z">>, <<"3", "e">>, <<"-", "3">>,
     <<"e">>, <<"e", MultiByte>>, <<MultiByte, "3">>}

ValidPrefix == StartPlacement \o Space \o <<"w">> \o Space \o <<"K", "Q", "k", "q">> \o Space

\* inputs of from_fen: well-formed and malformed in each section
ParseInputs ==
    {ValidPrefix \o token \o tail : token \in EnPassantTokens, tail \in {<<>>, ClockFields}}
    \cup {pl \o Space \o pc \o Space \o ca \o Space \o <<"-">> \o ClockFields :
            pl \in Placements, pc \in PlayerTokens, ca \in CastlingTokens}
    \cup {<<>>, Space, DEFAULT_FEN}

WithRights(placement, player) ==
    placement \o Space \o player \o Space \o <<"K", "Q", "k", "q">> \o Space \o <<"-">> \o ClockFields

\* positions the piece placement and move application start from
StartFens == {DEFAULT_FEN, WithRights(Midgame, <<"b">>)}

\* the coordinates set_piece and move_piece are called with
ProbeTiles == {TilePos(0, 0), TilePos(3, 3), TilePos(6, 3)}

\* positions the move generators are asked about
GenFens ==
    {DEFAULT_FEN} \cup
    {WithRights(pl, <<"w">>) :
        pl \in {KnightCentre, KnightCorner, KingCentre, QueenCentre,
                Midgame, PawnMix, Crowd}}

\* the squares the en-passant target is set to
EnPassantTiles == {TilePos(2, 3), TilePos(5, 2), TilePos(2, 5), TilePos(5, 5)}

---------------------------------------------------------------------------
(* Move generators.  Each returns [moves, panicked, offboard]: the list it
   returns, whether it panicked instead of returning, and whether it built a
   TilePos outside the board on the way. *)

Returned(moves) == [moves |-> moves, panicked |-> FALSE, offboard |-> FALSE]

\* a ray that keeps going after a capture
RECURSIVE MovesAlong_through(_, _, _, _)
MovesAlong_through(self, from, dir, k) ==
    IF k >= BOARD_SIZE THEN <<>>
    ELSE LET new_file == from.file + dir[1] * k
             new_rank == from.rank + dir[2] * k
         IN  IF OnBoard(new_file, new_rank)
             THEN LET new_pos        == TilePos(new_file, new_rank)
                      piece          == get_piece(self, from)
                      captured_piece == get_piece(self, new_pos)
                  IN  IF captured_piece # "None"
                      THEN IF to_player(captured_piece) # to_player(piece)
                           THEN <<new_pos>> \o MovesAlong_through(self, from, dir, k + 1)
                           ELSE <<>>
                      ELSE <<new_pos>> \o MovesAlong_through(self, from, dir, k + 1)
             ELSE MovesAlong_through(self, from, dir, k + 1)

\* the steps k, k+1, ... BOARD_SIZE-1 of get_moves_in_dir's inner loop
RECURSIVE MovesAlong(_, _, _, _)
MovesAlong(self, from, dir, k) ==
    IF k >= BOARD_SIZE THEN <<>>
    ELSE LET new_file == from.file + dir[1] * k
             new_rank == from.rank + dir[2] * k
         IN  IF OnBoard(new_file, new_rank)
             THEN LET new_pos        == TilePos(new_file, new_rank)
                      piece          == get_piece(self, from)
                      captured_piece == get_piece(self, new_pos)
                  IN  IF captured_piece # "None"
                      THEN IF to_player(captured_piece) # to_player(piece)
                           THEN <<new_pos>>     \* push, then break
                           ELSE <<>>            \* break
                      ELSE <<new_pos>> \o MovesAlong(self, from, dir, k + 1)
             ELSE MovesAlong(self, from, dir, k + 1)

RECURSIVE get_moves_in_dir(_, _, _)
get_moves_in_dir(self, from, dirs) ==
    IF dirs = <<>> THEN <<>>
    ELSE MovesAlong(self, from, Head(dirs), 1)
         \o get_moves_in_dir(self, from, Tail(dirs))

OrthogonalDirs == <<<<1, 0>>, <<0, 1>>, <<-1, 0>>, <<0, -1>>>>

DiagonalDirs == <<<<1, 1>>, <<1, -1>>, <<-1, 1>>, <<-1, -1>>>>

get_orthogonal_moves(self, from) ==
    Returned(get_moves_in_dir(self, from, OrthogonalDirs))

get_diagonal_moves(self, from) ==
    Returned(get_moves_in_dir(self, from, DiagonalDirs))

get_ortho_diagonal_moves(self, from) ==
    Returned(get_orthogonal_moves(self, from).moves
             \o get_diagonal_moves(self, from).moves)

Abs(x) == IF x < 0 THEN -x ELSE x

\* the pairs (i, j) of two nested loops over the same list, outer loop first
RECURSIVE LoopPairs(_, _, _, _)
LoopPairs(list, i, j, acc) ==
    IF i > Len(list) THEN acc
    ELSE IF j > Len(list) THEN LoopPairs(list, i + 1, 1, acc)
    ELSE LoopPairs(list, i, j + 1, Append(acc, <<list[i], list[j]>>))

KnightOffsets == LoopPairs(<<-2, -1, 1, 2>>, 1, 1, <<>>)

KingOffsets == LoopPairs(<<-1, 0, 1>>, 1, 1, <<>>)

\* a knight that may only move to empty squares
RECURSIVE KnightLoop_quiet(_, _, _)
KnightLoop_quiet(self, from, offsets) ==
    IF offsets = <<>> THEN <<>>
    ELSE LET i == Head(offsets)[1]
             j == Head(offsets)[2]
             here ==
                IF Abs(i) # Abs(j) /\ OnBoard(from.file + i, from.rank + j)
                   /\ get_piece(self, TilePos(from.file + i, from.rank + j)) = "None"
                THEN <<TilePos(from.file + i, from.rank + j)>>
                ELSE <<>>
         IN  here \o KnightLoop_quiet(self, from, Tail(offsets))

RECURSIVE KnightLoop(_, _, _)
KnightLoop(self, from, offsets) ==
    IF offsets = <<>> THEN <<>>
    ELSE LET i == Head(offsets)[1]
             j == Head(offsets)[2]
             here ==
                IF Abs(i) # Abs(j) /\ OnBoard(from.file + i, from.rank + j)
                THEN LET new_pos        == TilePos(from.file + i, from.rank + j)
                         captured_piece == get_piece(self, new_pos)
                     IN  IF to_player(captured_piece) # to_player(get_piece(self, from))
                            \/ captured_piece = "None"
                         THEN <<new_pos>>
                         ELSE <<>>
                ELSE <<>>
         IN  here \o KnightLoop(self, from, Tail(offsets))

get_knight_moves(self, from) == Returned(KnightLoop(self, from, KnightOffsets))

\* a king that is stopped by any piece, instead of by its own only
RECURSIVE KingLoop_quiet(_, _, _)
KingLoop_quiet(self, from, offsets) ==
    IF offsets = <<>> THEN <<>>
    ELSE LET i == Head(offsets)[1]
             j == Head(offsets)[2]
             here ==
                IF ~(i = 0 /\ j = 0) /\ OnBoard(from.file + i, from.rank + j)
                   /\ get_piece(self, TilePos(from.file + i, from.rank + j)) = "None"
                THEN <<TilePos(from.file + i, from.rank + j)>>
                ELSE <<>>
         IN  here \o KingLoop_quiet(self, from, Tail(offsets))

RECURSIVE KingLoop(_, _, _)
KingLoop(self, from, offsets) ==
    IF offsets = <<>> THEN <<>>
    ELSE LET i == Head(offsets)[1]
             j == Head(offsets)[2]
             vertical   == from.file + i
             horizontal == from.rank + j
             here ==
                IF ~(i = 0 /\ j = 0) /\ OnBoard(vertical, horizontal)
                THEN LET new_pos == TilePos(from.file + i, from.rank + j)
                     IN  IF to_player(get_piece(self, new_pos))
                                # to_player(get_piece(self, from))
                         THEN <<new_pos>>
                         ELSE <<>>
                ELSE <<>>
         IN  here \o KingLoop(self, from, Tail(offsets))

get_king_moves(self, from) == Returned(KingLoop(self, from, KingOffsets))

double_pawn_move_check(piece, from) ==
    (is_white(piece) /\ from.file = 1)
    \/ (is_black(piece) /\ from.file = BOARD_SIZE - 2)

get_vertical_dir(piece) == (IF is_white(piece) THEN 1 ELSE 0) * 2 - 1

get_pawn_moves(self, from) ==
    LET piece            == get_piece(self, from)
        vertical_dir     == get_vertical_dir(piece)
        new_vertical_pos == from.file + vertical_dir
        stepping         == new_vertical_pos > 0 /\ new_vertical_pos < BOARD_SIZE
        \* Single Move Vertically
        single ==
            IF stepping /\ get_piece(self, TilePos(new_vertical_pos, from.rank)) = "None"
            THEN <<TilePos(new_vertical_pos, from.rank)>>
            ELSE <<>>
        \* Diagonal Captures: the TilePos is built before the range check
        Capture(k) ==
            LET new_horizontal_pos == from.rank + k
                new_pos            == TilePos(new_vertical_pos, new_horizontal_pos)
            IN  IF stepping
                   /\ new_horizontal_pos > 0 /\ new_horizontal_pos < BOARD_SIZE
                   /\ to_player(piece) # <<>>
                   /\ to_player(get_piece(self, new_pos)) # <<>>
                   /\ to_player(piece) # to_player(get_piece(self, new_pos))
                THEN <<new_pos>>
                ELSE <<>>
        \* usize::try_from(new_horizontal_pos).unwrap() on a negative value
        panics   == stepping /\ \E k \in {-1, 1} : from.rank + k < 0
        offboard == stepping /\ \E k \in {-1, 1} : from.rank + k >= BOARD_SIZE
        \* En passant
        en_passant ==
            IF self.en_passant_on_last_move # <<>>
            THEN LET passant_tile == self.en_passant_on_last_move[1]
                     file_diff    == passant_tile.file - from.file
                     rank_diff    == passant_tile.rank - from.rank
                 IN  IF Abs(file_diff) = 1 /\ Abs(rank_diff) = vertical_dir
                     THEN <<passant_tile>>
                     ELSE <<>>
            ELSE <<>>
        \* Double Vertical Move
        double ==
            IF double_pawn_move_check(piece, from)
               /\ get_piece(self, TilePos(from.file + 2 * vertical_dir, from.rank)) = "None"
            THEN <<TilePos(from.file + 2 * vertical_dir, from.rank)>>
            ELSE <<>>
    IN  IF panics
        THEN [moves |-> <<>>, panicked |-> TRUE, offboard |-> FALSE]
        ELSE [moves    |-> single \o Capture(-1) \o Capture(1) \o en_passant \o double,
              panicked |-> FALSE,
              offboard |-> offboard]

---------------------------------------------------------------------------
(* display_board: the entity spawned for each piece *)

TileIndex(tile_pos) == tile_pos.file * BOARD_SIZE + tile_pos.rank

\* ids are handed out in spawn order: the squares first, then the pieces
EntityId(self, tile_pos) ==
    BOARD_SIZE * BOARD_SIZE
    + Cardinality({t \in Tiles : TileIndex(t) < TileIndex(tile_pos)
                                 /\ get_piece(self, t) # "None"})

display_board(self) ==
    [self EXCEPT !.entities =
        {e \in @ : get_piece(self, e.tile) = "None"}
        \cup {[tile |-> t, entity |-> EntityId(self, t)] :
                t \in {u \in Tiles : get_piece(self, u) # "None"}}]

---------------------------------------------------------------------------
(* The state machine *)

NoResult ==
    [kind |-> "none", from |-> TilePos(0, 0), moves |-> <<>>,
     panicked |-> FALSE, offboard |-> FALSE]

\* from_fen about to read its first character
InitParse ==
    /\ fen \in ParseInputs
    /\ parser = NewParser
    /\ board = NewBoard
    /\ ops = 0
    /\ result = NoResult

\* one iteration of from_fen's loop
FenChar ==
    /\ parser.status = "running"
    /\ parser.pos <= Len(fen)
    /\ \E checks \in BOOLEAN :   \* the build: TRUE when integer overflow panics
         LET st == FenStep([board |-> board, parser |-> parser], fen, checks)
         IN  /\ board' = st.board
             /\ parser' = st.parser
    /\ UNCHANGED <<fen, ops, result>>

\* the loop ran out of characters: Ok(board)
FenReturn ==
    /\ parser.status = "running"
    /\ parser.pos > Len(fen)
    /\ parser' = [parser EXCEPT !.status = "ok"]
    /\ UNCHANGED <<fen, board, ops, result>>

NextParse == FenChar \/ FenReturn

SpecParse == InitParse /\ [][NextParse]_vars

\* the Board resource as from_fen returned it
InitFrom(inputs) ==
    /\ fen \in inputs
    /\ \E checks \in BOOLEAN :
         LET done == from_fen(fen, checks)
         IN  /\ done.parser.status = "ok"
             /\ parser = done.parser
             /\ board = done.board
    /\ ops = 0
    /\ result = NoResult

Init == InitFrom(StartFens)

Displayed == \E t \in Tiles : get_entity(board, t) # <<>>

DisplayBoard ==
    /\ ops = 0
    /\ ~Displayed
    /\ board' = display_board(board)
    /\ UNCHANGED <<fen, parser, ops>>
    /\ result' = NoResult

SetPiece(tile_pos, piece) ==
    /\ ops < MaxOps
    /\ board' = set_piece(board, tile_pos, piece)
    /\ ops' = ops + 1
    /\ result' = [NoResult EXCEPT !.kind = "set_piece", !.from = tile_pos]
    /\ UNCHANGED <<fen, parser>>

MovePiece(from, to) ==
    /\ ops < MaxOps
    /\ board' = move_piece(board, from, to)
    /\ ops' = ops + 1
    /\ result' = [NoResult EXCEPT !.kind = "move_piece", !.from = from, !.moves = <<to>>]
    /\ UNCHANGED <<fen, parser>>

NextPlayer ==
    /\ board' = next_player(board)
    /\ result' = NoResult
    /\ UNCHANGED <<fen, parser, ops>>

Next ==
    \/ DisplayBoard
    \/ \E t \in ProbeTiles, piece \in AllPieces : SetPiece(t, piece)
    \/ \E from \in ProbeTiles, to \in ProbeTiles : MovePiece(from, to)
    \/ NextPlayer

Spec == Init /\ [][Next]_vars

(* The move generators, asked about parsed positions *)

InitGen == InitFrom(GenFens)

\* a write of the public field en_passant_on_last_move
SetEnPassant(target) ==
    /\ board' = [board EXCEPT !.en_passant_on_last_move = target]
    /\ result' = NoResult
    /\ UNCHANGED <<fen, parser, ops>>

\* a generator is called once the caller is done with the previous list
Generated(kind, from, ret) ==
    /\ result.kind = "none"
    /\ result' = [kind |-> kind, from |-> from, moves |-> ret.moves,
                  panicked |-> ret.panicked, offboard |-> ret.offboard]
    /\ UNCHANGED <<fen, parser, board, ops>>

GetOrthogonalMoves(from) == Generated("orthogonal", from, get_orthogonal_moves(board, from))

GetDiagonalMoves(from) == Generated("diagonal", from, get_diagonal_moves(board, from))

GetOrthoDiagonalMoves(from) ==
    Generated("ortho_diagonal", from, get_ortho_diagonal_moves(board, from))

GetKnightMoves(from) == Generated("knight", from, get_knight_moves(board, from))

GetKingMoves(from) == Generated("king", from, get_king_moves(board, from))

GetPawnMoves(from) == Generated("pawn", from, get_pawn_moves(board, from))

\* the caller drops the list it was given
DropMoves ==
    /\ result.kind # "none"
    /\ result' = NoResult
    /\ UNCHANGED <<fen, parser, board, ops>>

NextGen ==
    \/ DropMoves
    \/ \E target \in {<<>>} \cup {<<t>> : t \in EnPassantTiles} : SetEnPassant(target)
    \/ \E from \in Tiles : GetOrthogonalMoves(from)
    \/ \E from \in Tiles : GetDiagonalMoves(from)
    \/ \E from \in Tiles : GetOrthoDiagonalMoves(from)
    \/ \E from \in Tiles : GetKnightMoves(from)
    \/ \E from \in Tiles : GetKingMoves(from)
    \/ \E from \in Tiles : GetPawnMoves(from)

SpecGen == InitGen /\ [][NextGen]_vars

---------------------------------------------------------------------------
(* Properties *)

\* the canonical starting position, square by square
BackRank == <<"Rook", "Knight", "Bishop", "Queen", "King", "Bishop", "Knight", "Rook">>

Colour(prefix, kind) ==
    CHOOSE piece \in PieceSet :
        \E i \in 1..Len(PIECES) :
            /\ piece = PIECES[i]
            /\ piece = IF prefix = "W"
                       THEN CHOOSE w \in {"WQueen", "WKing", "WRook", "WKnight", "WBishop", "WPawn"} :
                               w = (CASE kind = "Queen" -> "WQueen" [] kind = "King" -> "WKing"
                                      [] kind = "Rook" -> "WRook" [] kind = "Knight" -> "WKnight"
                                      [] kind = "Bishop" -> "WBishop" [] kind = "Pawn" -> "WPawn")
                       ELSE CHOOSE bl \in {"BQueen", "BKing", "BRook", "BKnight", "BBishop", "BPawn"} :
                               bl = (CASE kind = "Queen" -> "BQueen" [] kind = "King" -> "BKing"
                                       [] kind = "Rook" -> "BRook" [] kind = "Knight" -> "BKnight"
                                       [] kind = "Bishop" -> "BBishop" [] kind = "Pawn" -> "BPawn")

StartingPiece(tile_pos) ==
    CASE tile_pos.file = 0              -> Colour("W", BackRank[tile_pos.rank + 1])
      [] tile_pos.file = 1              -> "WPawn"
      [] tile_pos.file = BOARD_SIZE - 2 -> "BPawn"
      [] tile_pos.file = BOARD_SIZE - 1 -> Colour("B", BackRank[tile_pos.rank + 1])
      [] OTHER                          -> "None"

Holders(self, tile_pos) ==
    {piece \in PieceSet : get_bit_at(self.positions[piece], tile_pos)}

\* C1: in every state reached from a parsed position by set_piece and
\* move_piece calls, each coordinate is set in at most one of the 12
\* occupancy sets.
C1_OnePiecePerSquare ==
    /\ \A tile_pos \in Tiles : Cardinality(Holders(board, tile_pos)) <= 1
    /\ \A piece \in PieceSet : board.positions[piece] \subseteq Tiles

\* C1 witness: set_piece has put a piece on a square that held another piece.
C1_Witness ==
    /\ result.kind = "set_piece"
    /\ ops = 1
    /\ fen = DEFAULT_FEN
    /\ StartingPiece(result.from) # "None"
    /\ get_piece(board, result.from) # "None"
    /\ get_piece(board, result.from) # StartingPiece(result.from)

\* C2: move_piece(from, to) with from # to leaves at `to` the piece that was
\* at `from`, leaves `from` empty, and keeps the piece of every other square.
C2_MoveRelocates ==
    [][\A from \in ProbeTiles, to \in ProbeTiles :
          (from # to /\ MovePiece(from, to)) =>
              /\ get_piece(board', to) = get_piece(board, from)
              /\ get_piece(board', from) = "None"
              /\ \A other \in Tiles \ {from, to} :
                    get_piece(board', other) = get_piece(board, other)]_vars

\* C2 witness: the first call moved a piece onto a square that held another.
C2_Witness ==
    /\ result.kind = "move_piece"
    /\ ops = 1
    /\ result.from # result.moves[1]
    /\ fen = DEFAULT_FEN
    /\ StartingPiece(result.from) # "None"
    /\ StartingPiece(result.moves[1]) # "None"
    /\ get_piece(board, result.moves[1]) = StartingPiece(result.from)
    /\ get_piece(board, result.from) = "None"

\* C3 (as claimed): from_fen ends, for every input, by returning a Position
\* or a string-valued error: it never aborts and never hands a coordinate
\* outside the board to the occupancy sets.
C3_ReturnsPositionOrError == parser.status \in {"running", "ok", "err"}

\* C4: parsing the standard starting description succeeds with White to
\* move, the canonical pieces on both back ranks, the 16 pawns on their home
\* ranks, every other square empty, all four castling rights, no en-passant
\* target, half-move counter 0 and full-move counter 1.
C4_StartingPosition ==
    (fen = DEFAULT_FEN /\ parser.status # "running") =>
        /\ parser.status = "ok"
        /\ board.player = "White"
        /\ \A tile_pos \in Tiles :
              /\ get_piece(board, tile_pos) = StartingPiece(tile_pos)
              /\ Holders(board, tile_pos) \subseteq {StartingPiece(tile_pos)}
        /\ \A i \in 1..COLOUR_AMT : board.castling_rights[i] = <<TRUE, TRUE>>
        /\ board.en_passant_on_last_move = <<>>
        /\ board.half_move_counter = 0
        /\ board.full_move_counter = 1

\* C4 witness: from_fen has returned for the standard starting description.
C4_Witness == fen = DEFAULT_FEN /\ parser.status = "ok" /\ parser.section_index = 4

\* the en-passant section of a description string that starts with ValidPrefix
HasValidPrefix(fen_string) ==
    /\ Len(fen_string) > Len(ValidPrefix)
    /\ SubSeq(fen_string, 1, Len(ValidPrefix)) = ValidPrefix

EnPassantSection(fen_string) ==
    LET start  == Len(ValidPrefix) + 1
        spaces == {i \in start..Len(fen_string) : fen_string[i] = " "}
        stop   == IF spaces = {} THEN Len(fen_string) ELSE MinOf(spaces) - 1
    IN  SubSeq(fen_string, start, stop)

\* C10 (as claimed): after valid earlier sections, an en-passant token made of
\* a file letter a-h and a rank digit 0-8 parses, and the target is the
\* coordinate converted from it; any other token but '-' fails with an error
\* naming that token.
C10_EnPassantToken ==
    (HasValidPrefix(fen) /\ parser.status # "running") =>
        LET token == EnPassantSection(fen)
        IN  IF token = <<"-">> THEN parser.status = "ok"
            ELSE IF Len(token) = 2 /\ IsFileChar(token[1]) /\ IsDigit(token[2], 0, 8)
            THEN /\ parser.status = "ok"
                 /\ board.en_passant_on_last_move =
                        <<TilePos(FileValue(token[1]), DigitValue(token[2]))>>
            ELSE /\ parser.status = "err"
                 /\ parser.error = token

---------------------------------------------------------------------------
(* Properties of the move generators *)

Occupied(self, tile_pos) == Holders(self, tile_pos) # {}

WhitePieces == {"WQueen", "WKing", "WRook", "WKnight", "WBishop", "WPawn"}

BlackPieces == {"BQueen", "BKing", "BRook", "BKnight", "BBishop", "BPawn"}

SamePlayer(a, b) ==
    (a \in WhitePieces /\ b \in WhitePieces) \/ (a \in BlackPieces /\ b \in BlackPieces)

Opposing(a, b) ==
    (a \in WhitePieces /\ b \in BlackPieces) \/ (a \in BlackPieces /\ b \in WhitePieces)

SetOf(seq) == {seq[i] : i \in 1..Len(seq)}

NoRepeats(seq) == Cardinality(SetOf(seq)) = Len(seq)

\* the only piece of the board stands on tile_pos
LonePiece(self, tile_pos) ==
    /\ Occupied(self, tile_pos)
    /\ \A other \in Tiles \ {tile_pos} : ~Occupied(self, other)

\* the k-th square from `from` in direction dir (on the board or not)
Along(from, dir, k) == [file |-> from.file + dir[1] * k, rank |-> from.rank + dir[2] * k]

\* how many squares lie between `from` and the edge in direction dir
Reach(from, dir) == Cardinality({k \in 1..(BOARD_SIZE - 1) : Along(from, dir, k) \in Tiles})

Blockers(self, from, dir) ==
    {k \in 1..Reach(from, dir) : Occupied(self, Along(from, dir, k))}

\* the squares a sliding piece is to be offered in one direction, nearest first
ExpectedRay(self, from, dir) ==
    LET blockers == Blockers(self, from, dir)
        first    == MinOf(blockers)
        last     == IF blockers = {} THEN Reach(from, dir)
                    ELSE IF Opposing(get_piece(self, from),
                                     get_piece(self, Along(from, dir, first)))
                    THEN first
                    ELSE first - 1
    IN  [k \in 1..last |-> Along(from, dir, k)]

ExpectedRays(self, from, dirs) ==
    ExpectedRay(self, from, dirs[1]) \o ExpectedRay(self, from, dirs[2])
    \o ExpectedRay(self, from, dirs[3]) \o ExpectedRay(self, from, dirs[4])

\* C5: from an occupied source the orthogonal (diagonal) generator returns,
\* direction by direction, the empty squares up to the first occupied square
\* or the edge, and that occupied square exactly when it holds an opposing
\* piece; the ortho-diagonal generator returns the two lists one after the
\* other.
C5_SlidingMoves ==
    Occupied(board, result.from) =>
        /\ result.kind = "orthogonal" =>
              result.moves = ExpectedRays(board, result.from, OrthogonalDirs)
        /\ result.kind = "diagonal" =>
              result.moves = ExpectedRays(board, result.from, DiagonalDirs)
        /\ result.kind = "ortho_diagonal" =>
              result.moves = ExpectedRays(board, result.from, OrthogonalDirs)
                             \o ExpectedRays(board, result.from, DiagonalDirs)
        /\ result.kind \in {"orthogonal", "diagonal", "ortho_diagonal"} =>
              ~result.panicked /\ ~result.offboard

\* C5 witness: a sliding call whose rays are cut short both by an opposing
\* piece, which is offered with squares behind it left out, and by a piece of
\* the mover's own player, which is not offered.
C5_Witness ==
    /\ result.kind = "ortho_diagonal"
    /\ Occupied(board, result.from)
    /\ \E dir \in SetOf(OrthogonalDirs) \cup SetOf(DiagonalDirs) :
          LET blockers == Blockers(board, result.from, dir)
          IN  /\ blockers # {}
              /\ MinOf(blockers) >= 2
              /\ MinOf(blockers) < Reach(result.from, dir)
              /\ Opposing(get_piece(board, result.from),
                          get_piece(board, Along(result.from, dir, MinOf(blockers))))
              /\ Along(result.from, dir, MinOf(blockers)) \in SetOf(result.moves)
              /\ Along(result.from, dir, MinOf(blockers) + 1) \notin SetOf(result.moves)
    /\ \E dir \in SetOf(OrthogonalDirs) \cup SetOf(DiagonalDirs) :
          LET blockers == Blockers(board, result.from, dir)
          IN  /\ blockers # {}
              /\ MinOf(blockers) >= 2
              /\ SamePlayer(get_piece(board, result.from),
                            get_piece(board, Along(result.from, dir, MinOf(blockers))))
              /\ Along(result.from, dir, MinOf(blockers)) \notin SetOf(result.moves)
              /\ Along(result.from, dir, 1) \in SetOf(result.moves)

KnightTargets(from) ==
    {t \in Tiles : <<Abs(t.file - from.file), Abs(t.rank - from.rank)>> \in {<<1, 2>>, <<2, 1>>}}

\* C6: from an occupied source get_knight_moves returns exactly the on-board
\* squares at the offsets (+-1, +-2) and (+-2, +-1) that do not hold a piece
\* of the source piece's player; a lone knight gets 8 squares from (3,3) and
\* 2 from (0,0).
C6_KnightMoves ==
    (result.kind = "knight" /\ Occupied(board, result.from)) =>
        /\ ~result.panicked /\ ~result.offboard
        /\ NoRepeats(result.moves)
        /\ SetOf(result.moves) =
              {t \in KnightTargets(result.from) :
                  ~SamePlayer(get_piece(board, t), get_piece(board, result.from))}
        /\ (LonePiece(board, result.from) /\ result.from = TilePos(3, 3)) =>
              Len(result.moves) = 8
        /\ (LonePiece(board, result.from) /\ result.from = TilePos(0, 0)) =>
              Len(result.moves) = 2

\* C6 witness: knight moves from a square with an opposing piece, an own
\* piece and an empty square among its targets.
C6_Witness ==
    /\ result.kind = "knight"
    /\ Occupied(board, result.from)
    /\ \E t \in KnightTargets(result.from) :
          Opposing(get_piece(board, t), get_piece(board, result.from))
          /\ t \in SetOf(result.moves)
    /\ \E t \in KnightTargets(result.from) :
          SamePlayer(get_piece(board, t), get_piece(board, result.from))
          /\ t \notin SetOf(result.moves)
    /\ \E t \in KnightTargets(result.from) :
          ~Occupied(board, t) /\ t \in SetOf(result.moves)

KingTargets(from) ==
    {t \in Tiles \ {from} : Abs(t.file - from.file) <= 1 /\ Abs(t.rank - from.rank) <= 1}

\* C7: from an occupied source get_king_moves returns exactly the adjacent
\* on-board squares that do not hold a piece of the source piece's player:
\* empty and opposing squares are offered, own squares are not; a lone piece
\* away from the edges gets 8 squares.
C7_KingMoves ==
    (result.kind = "king" /\ Occupied(board, result.from)) =>
        /\ ~result.panicked /\ ~result.offboard
        /\ NoRepeats(result.moves)
        /\ SetOf(result.moves) =
              {t \in KingTargets(result.from) :
                  ~SamePlayer(get_piece(board, t), get_piece(board, result.from))}
        /\ (LonePiece(board, result.from)
            /\ result.from.file \in 1..(BOARD_SIZE - 2)
            /\ result.from.rank \in 1..(BOARD_SIZE - 2)) =>
              Len(result.moves) = 8

\* C7 witness: king moves from a square next to an opposing piece, an own
\* piece and an empty square.
C7_Witness ==
    /\ result.kind = "king"
    /\ Occupied(board, result.from)
    /\ \E t \in KingTargets(result.from) :
          Opposing(get_piece(board, t), get_piece(board, result.from))
          /\ t \in SetOf(result.moves)
    /\ \E t \in KingTargets(result.from) :
          SamePlayer(get_piece(board, t), get_piece(board, result.from))
          /\ t \notin SetOf(result.moves)
    /\ \E t \in KingTargets(result.from) :
          ~Occupied(board, t) /\ t \in SetOf(result.moves)

IsPawn(piece) == piece \in {"WPawn", "BPawn"}

\* +1 for a white pawn, -1 for a black one
Forward(piece) == IF piece \in WhitePieces THEN 1 ELSE -1

HomeFile(piece) == IF piece \in WhitePieces THEN 1 ELSE BOARD_SIZE - 2

\* C8 (as claimed): get_pawn_moves offers the double-step square only from
\* the pawn's starting file index, and only when the single-step and the
\* double-step square are both empty.
C8_DoubleStep ==
    (result.kind = "pawn" /\ ~result.panicked /\ IsPawn(get_piece(board, result.from))) =>
        LET pawn   == get_piece(board, result.from)
            single == [file |-> result.from.file + Forward(pawn), rank |-> result.from.rank]
            double == [file |-> result.from.file + 2 * Forward(pawn), rank |-> result.from.rank]
        IN  double \in SetOf(result.moves) =>
                /\ result.from.file = HomeFile(pawn)
                /\ ~Occupied(board, single)
                /\ ~Occupied(board, double)

\* C9 (as claimed): with the en-passant target set to an empty square off the
\* pawn's own line of advance (so that no other rule offers it),
\* get_pawn_moves offers the target when it is one away from the pawn in the
\* file component and `dir` away in the rank component, for a pawn of either
\* colour, and offers it only when it is one away in both components; a
\* target two files away is never offered.
C9_EnPassant ==
    (result.kind = "pawn" /\ ~result.panicked /\ IsPawn(get_piece(board, result.from))
     /\ board.en_passant_on_last_move # <<>>
     /\ ~Occupied(board, board.en_passant_on_last_move[1])
     /\ board.en_passant_on_last_move[1].rank # result.from.rank) =>
        LET pawn      == get_piece(board, result.from)
            target    == board.en_passant_on_last_move[1]
            file_diff == target.file - result.from.file
            rank_diff == target.rank - result.from.rank
        IN  /\ (Abs(file_diff) = 1 /\ rank_diff = Forward(pawn)) =>
                   target \in SetOf(result.moves)
            /\ target \in SetOf(result.moves) =>
                   (Abs(file_diff) = 1 /\ Abs(rank_diff) = 1)
            /\ Abs(file_diff) = 2 => target \notin SetOf(result.moves)

\* C11 (as claimed): for a pawn of either colour get_pawn_moves offers the
\* single forward square (file + dir, rank) exactly when that square is on
\* the board, file index 0 included, and empty.
C11_SingleStep ==
    (result.kind = "pawn" /\ ~result.panicked /\ IsPawn(get_piece(board, result.from))) =>
        LET pawn   == get_piece(board, result.from)
            single == [file |-> result.from.file + Forward(pawn), rank |-> result.from.rank]
        IN  (single \in SetOf(result.moves)) <=>
                (single \in Tiles /\ ~Occupied(board, single))

\* C12 (as claimed): for a pawn of either colour get_pawn_moves offers each
\* diagonal square (file + dir, rank - 1) and (file + dir, rank + 1) exactly
\* when it is on the board, rank index 0 and file index 0 included, and holds
\* a piece of the opposing player.  Squares that are the en-passant target
\* are left to the en-passant rule.
C12_DiagonalCaptures ==
    (result.kind = "pawn" /\ ~result.panicked /\ IsPawn(get_piece(board, result.from))) =>
        LET pawn == get_piece(board, result.from)
        IN  \A k \in {-1, 1} :
                LET diagonal == [file |-> result.from.file + Forward(pawn),
                                 rank |-> result.from.rank + k]
                IN  board.en_passant_on_last_move # <<diagonal>> =>
                        ((diagonal \in SetOf(result.moves)) <=>
                            (diagonal \in Tiles
                             /\ Opposing(get_piece(board, diagonal), pawn)))

\* C13 (as claimed): no generator, called for an on-board source (the pawn
\* generator for a pawn, on the edges of the board too), aborts on a
\* signed-to-unsigned conversion or builds a TilePos with a component outside
\* 0..BOARD_SIZE-1.
C13_RangeCheckedFirst ==
    (/\ result.kind \in {"orthogonal", "diagonal", "ortho_diagonal", "knight", "king", "pawn"}
     /\ result.kind = "pawn" => IsPawn(get_piece(board, result.from))) =>
        /\ ~result.panicked
        /\ ~result.offboard
        /\ SetOf(result.moves) \subseteq Tiles

====
